---- MODULE Spec2Model ----
(***************************************************************************)
(* Model of crewai/crewai_marketing_strategy.py: the command-line block,   *)
(* main(), the four tool functions, the five agent/task factories and the  *)
(* sequential crew run that main() starts with crew.kickoff().             *)
(*                                                                         *)
(* Strings are TLA+ strings; a formatted text (an f-string) is the tuple   *)
(* of its literal lead and its interpolated values.  Floats are exact      *)
(* decimals [num, den] with den a power of ten.                            *)
(***************************************************************************)
EXTENDS Integers, Sequences, FiniteSets, TLC

\* ------------------------------------------------------------------ bounds
MaxArgs == 4            \* longest command line explored (positional arguments)
MaxToolCalls == 2       \* tool invocations explored per run

\* ------------------------------------------------------------ value sets
Unset == "<unset>"

\* Characters of the command-line strings used as inputs.
Chars(s) ==
    CASE s = "2.5"    -> <<"2", ".", "5">>
      [] s = "1500."  -> <<"1", "5", "0", "0", ".">>
      [] s = "."      -> <<".">>
      [] s = ""       -> <<>>
      [] s = "A/B"    -> <<"A", "/", "B">>
      [] s = "Toys"   -> <<"T", "o", "y", "s">>
      [] s = "AI-Powered Task Manager" ->
             <<"A", "I", "-", "P", "o", "w", "e", "r", "e", "d", " ", "T", "a",
               "s", "k", " ", "M", "a", "n", "a", "g", "e", "r">>
      [] OTHER        -> <<"e", "x", "t", "r", "a">>

\* Strings a user may pass at each position of the command line.
ArgChoices(i) ==
    CASE i = 1 -> {"A/B"}
      [] i = 2 -> {"Toys"}
      [] i = 3 -> {"2.5", "1500.", ".", "", "A/B"}
      [] OTHER -> {"extra"}

ArgvOfLen(n) == { a \in [1..n -> UNION { ArgChoices(i) : i \in 1..n }] :
                    \A i \in 1..n : a[i] \in ArgChoices(i) }

ArgvSet == UNION { ArgvOfLen(n) : n \in 0..MaxArgs }

\* ------------------------------------------------- float() and ${x:,.0f}
DigitChar == <<"0", "1", "2", "3", "4", "5", "6", "7", "8", "9">>

IsDigit(c) == \E d \in 1..10 : DigitChar[d] = c

DigitValue(c) == (CHOOSE d \in 1..10 : DigitChar[d] = c) - 1

RECURSIVE DigitsToNat(_)
DigitsToNat(ds) ==
    IF ds = <<>> THEN 0
    ELSE 10 * DigitsToNat(SubSeq(ds, 1, Len(ds) - 1)) + DigitValue(ds[Len(ds)])

RECURSIVE Pow10(_)
Pow10(k) == IF k = 0 THEN 1 ELSE 10 * Pow10(k - 1)

\* Variant: a conversion that does not insist on a digit.
FloatOkLenient(cs) ==
    /\ \A i \in 1..Len(cs) : IsDigit(cs[i]) \/ cs[i] = "."
    /\ Cardinality({ i \in 1..Len(cs) : cs[i] = "." }) <= 1

\* float(s) accepts, over this alphabet, digits with at most one point and
\* at least one digit; anything else raises ValueError.
FloatOk(cs) ==
    /\ \A i \in 1..Len(cs) : IsDigit(cs[i]) \/ cs[i] = "."
    /\ Cardinality({ i \in 1..Len(cs) : cs[i] = "." }) <= 1
    /\ \E i \in 1..Len(cs) : IsDigit(cs[i])

Float(cs) ==
    LET dots == { i \in 1..Len(cs) : cs[i] = "." }
        frac == IF dots = {} THEN 0 ELSE Len(cs) - (CHOOSE i \in dots : TRUE)
    IN  [num |-> DigitsToNat(SelectSeq(cs, IsDigit)), den |-> Pow10(frac)]

\* Rounding of the "f" presentation with precision 0: nearest integer, ties
\* to even.
RoundHalfEven(x) ==
    LET q == x.num \div x.den
        r == x.num % x.den
    IN  IF 2 * r < x.den THEN q
        ELSE IF 2 * r > x.den THEN q + 1
        ELSE IF q % 2 = 0 THEN q ELSE q + 1

RECURSIVE NatChars(_)
NatChars(n) ==
    IF n < 10 THEN <<DigitChar[n + 1]>>
    ELSE NatChars(n \div 10) \o <<DigitChar[(n % 10) + 1]>>

Pad3(n) == <<DigitChar[(n \div 100) + 1], DigitChar[((n \div 10) % 10) + 1],
             DigitChar[(n % 10) + 1]>>

RECURSIVE Grouped(_)
Grouped(n) ==
    IF n < 1000 THEN NatChars(n)
    ELSE Grouped(n \div 1000) \o <<",">> \o Pad3(n % 1000)

\* f"${x:,.0f}"
FormatBudget(x) == <<"$">> \o Grouped(RoundHalfEven(x))


\* ------------------------------------------------------------------ tools
research_market_trends(product_category, target_audience) ==
    <<"Research task: Analyze market trends for", product_category,
      "targeting", target_audience>>

analyze_competitors(product_name, product_category) ==
    <<"Research task: Analyze competitors for", product_name,
      "in", product_category>>

research_marketing_channels(product_category, target_audience) ==
    <<"Research task: Identify best marketing channels for", product_category,
      "targeting", target_audience>>

calculate_marketing_metrics(budget, channels) ==
    <<"Analysis task: Calculate marketing metrics for">> \o FormatBudget(budget)
        \o <<"budget across", channels>>

ToolNames == {"research_market_trends", "analyze_competitors",
              "research_marketing_channels", "calculate_marketing_metrics"}

\* ----------------------------------------------------------------- agents
create_market_research_agent(product_name, product_category) ==
    [role |-> "Market Research Analyst",
     goal |-> <<"Conduct comprehensive market research for", product_name,
                product_category>>,
     backstory |-> <<"senior market research analyst", product_category>>,
     tools |-> <<"research_market_trends", "analyze_competitors">>,
     verbose |-> TRUE,
     allow_delegation |-> FALSE]

create_content_strategist_agent(product_name, target_audience) ==
    [role |-> "Content Strategist",
     goal |-> <<"Develop compelling messaging", product_name, target_audience>>,
     backstory |-> <<"expert content strategist", target_audience>>,
     tools |-> <<"research_market_trends">>,
     verbose |-> TRUE,
     allow_delegation |-> FALSE]

create_channel_specialist_agent(product_category, target_audience) ==
    [role |-> "Marketing Channel Specialist",
     goal |-> <<"Identify the most effective marketing channels",
                product_category, target_audience>>,
     backstory |-> <<"marketing channel expert", product_category>>,
     tools |-> <<"research_marketing_channels">>,
     verbose |-> TRUE,
     allow_delegation |-> FALSE]

create_campaign_planner_agent(product_name, target_audience) ==
    [role |-> "Campaign Planner",
     goal |-> <<"Create detailed, actionable marketing campaign plans",
                product_name, target_audience>>,
     backstory |-> <<"strategic campaign planner">>,
     tools |-> <<>>,
     verbose |-> TRUE,
     allow_delegation |-> FALSE]

create_budget_analyst_agent(product_category) ==
    [role |-> "Marketing Budget Analyst",
     goal |-> <<"Allocate marketing budget effectively", product_category>>,
     backstory |-> <<"marketing finance expert", product_category>>,
     tools |-> <<"calculate_marketing_metrics">>,
     verbose |-> TRUE,
     allow_delegation |-> FALSE]

\* ------------------------------------------------------------------ tasks
create_market_research_task(market_research_agent, product_name, product_category, target_audience, product_description) ==
    [description |-> <<"Conduct comprehensive market research for",
                       product_name, product_category, product_description,
                       target_audience>>,
     agent |-> market_research_agent,
     expected_output |-> <<"A comprehensive market research report",
                           product_name, product_category>>]

create_content_strategy_task(content_strategist_agent, product_name, product_description, target_audience, unique_value_proposition) ==
    [description |-> <<"Develop a comprehensive content strategy for",
                       product_name, product_description, target_audience,
                       unique_value_proposition>>,
     agent |-> content_strategist_agent,
     expected_output |-> <<"A comprehensive content strategy document",
                           product_name>>]

create_channel_strategy_task(channel_specialist_agent, product_name, product_category, target_audience, marketing_objectives) ==
    [description |-> <<"Develop a marketing channel strategy for",
                       product_name, product_category, target_audience,
                       marketing_objectives>>,
     agent |-> channel_specialist_agent,
     expected_output |-> <<"A comprehensive channel strategy document",
                           product_name>>]

create_campaign_plan_task(campaign_planner_agent, product_name, target_audience, campaign_timeline, marketing_objectives) ==
    [description |-> <<"Create a detailed marketing campaign plan for",
                       product_name, target_audience, campaign_timeline,
                       marketing_objectives>>,
     agent |-> campaign_planner_agent,
     expected_output |-> <<"A detailed marketing campaign plan",
                           product_name>>]

create_budget_allocation_task(budget_analyst_agent, product_name, total_budget, marketing_objectives, campaign_timeline) ==
    [description |-> <<"Allocate marketing budget for", product_name>>
                        \o FormatBudget(total_budget)
                        \o <<marketing_objectives, campaign_timeline>>,
     agent |-> budget_analyst_agent,
     expected_output |-> <<"A comprehensive budget allocation plan",
                           product_name>>]

\* ------------------------------------------------- defaults of main()
MainDefaults ==
    [product_name |-> "AI-Powered Task Manager",
     product_category |-> "Productivity Software",
     product_description |-> "An AI-powered task management application that helps teams organize, prioritize, and complete work more efficiently",
     target_audience |-> "Small to medium-sized business teams and remote workers",
     unique_value_proposition |-> "Intelligent task prioritization using AI, seamless team collaboration, and automated workflow optimization",
     marketing_objectives |-> "Increase brand awareness, generate qualified leads, and drive product sign-ups",
     campaign_timeline |-> "3 months (Q1 launch campaign)",
     total_budget |-> [num |-> 50000, den |-> 1]]

\* The kwargs dictionary literal of the command-line block.
KwargsLiteral ==
    [product_name |-> "AI-Powered Task Manager",
     product_category |-> "Productivity Software",
     product_description |-> "An AI-powered task management application that helps teams organize, prioritize, and complete work more efficiently",
     target_audience |-> "Small to medium-sized business teams and remote workers",
     unique_value_proposition |-> "Intelligent task prioritization using AI, seamless team collaboration, and automated workflow optimization",
     marketing_objectives |-> "Increase brand awareness, generate qualified leads, and drive product sign-ups",
     campaign_timeline |-> "3 months (Q1 launch campaign)",
     total_budget |-> [num |-> 50000, den |-> 1]]

\* ------------------------------------------------------------ report file
LowerChar(c) ==
    CASE c = "A" -> "a" [] c = "B" -> "b" [] c = "I" -> "i" [] c = "M" -> "m"
      [] c = "P" -> "p" [] c = "T" -> "t" [] OTHER -> c

\* product_name.replace(' ', '_').lower()
Slug(cs) == [i \in 1..Len(cs) |-> LowerChar(IF cs[i] = " " THEN "_" ELSE cs[i])]

ReportName(product_name) ==
    <<"marketing_strategy_">> \o Slug(Chars(product_name)) \o <<"_", "<timestamp>", ".txt">>

Rule == <<"================================================================================">>

ReportHeader(kw) ==
    << Rule, <<"MARKETING STRATEGY REPORT">>, Rule,
       <<"Product:", kw.product_name>>,
       <<"Category:", kw.product_category>>,
       <<"Target Audience:", kw.target_audience>>,
       <<"Budget:">> \o FormatBudget(kw.total_budget),
       <<"Timeline:", kw.campaign_timeline>>,
       <<"Generated:", "<timestamp>">>,
       Rule, <<"COMPREHENSIVE MARKETING STRATEGY">>, Rule >>

\* ------------------------------------------------------------------ state
VARIABLES
    argv,           \* sys.argv[1:], the positional command-line arguments
    config_ok,      \* what validate_config() returns in this run
    Config,         \* shared_config.Config: API_KEY, API_BASE, OPENAI_MODEL, USE_GROQ
    environ,        \* os.environ restricted to the OPENAI_* names
    pc,             \* position of the script
    kwargs,         \* the kwargs dictionary, then the parameters of main()
    agents,         \* the agents created so far, in creation order
    tasks,          \* the tasks created so far, in creation order
    crew,           \* <<>> or <<the Crew object>>
    status,         \* per position of crew.tasks: pending / active / done / failed
    starts,         \* per position of crew.tasks: how often execution started
    contexts,       \* per position of crew.tasks: the context the task was run with
    task_outputs,   \* outputs of the finished tasks, in completion order
    kickoff_calls,  \* number of crew.kickoff() invocations
    result,         \* <<>> or <<the value crew.kickoff() returned>>
    files,          \* report files created by this run: name, content, closed
    stdout,         \* messages printed, in order
    exit_status,    \* process exit status once the script has ended, else -1
    raised,         \* origin of the exception raised in this run, or "none"
    tool_log        \* tool invocations: tool, args, result

vars == <<argv, config_ok, Config, environ, pc, kwargs, agents, tasks, crew,
          status, starts, contexts, task_outputs, kickoff_calls, result, files,
          stdout, exit_status, raised, tool_log>>

EnvNames == {"OPENAI_API_KEY", "OPENAI_API_BASE", "OPENAI_MODEL_NAME"}

NumStages == 5

Stages == 1..NumStages

Init ==
    /\ argv \in ArgvSet
    /\ config_ok \in BOOLEAN
    /\ Config \in [API_KEY : {"cfg-key"}, API_BASE : {"cfg-base"},
                   OPENAI_MODEL : {"cfg-model"}, USE_GROQ : BOOLEAN]
    /\ environ \in { [n \in EnvNames |-> v] : v \in {Unset, "preset"} }
    /\ pc = "cli"
    /\ kwargs = KwargsLiteral
    /\ agents = <<>>
    /\ tasks = <<>>
    /\ crew = <<>>
    /\ status = [i \in Stages |-> "pending"]
    /\ starts = [i \in Stages |-> 0]
    /\ contexts = [i \in Stages |-> <<>>]
    /\ task_outputs = <<>>
    /\ kickoff_calls = 0
    /\ result = <<>>
    /\ files = {}
    /\ stdout = <<>>
    /\ exit_status = -1
    /\ raised = "none"
    /\ tool_log = <<>>

\* ------------------------------------------------------ command-line block
\* Variant: the script name is not counted, every test is off by one.
OverrideNamesShifted(kw, args) ==
    LET k1 == IF Len(args) > 1 THEN [kw EXCEPT !.product_name = args[1]] ELSE kw
    IN  IF Len(args) > 2 THEN [k1 EXCEPT !.product_category = args[2]] ELSE k1

\* The three "if len(sys.argv) > k" overrides, up to the float() conversion.
OverrideNames(kw, args) ==
    LET k1 == IF Len(args) > 0 THEN [kw EXCEPT !.product_name = args[1]] ELSE kw
    IN  IF Len(args) > 1 THEN [k1 EXCEPT !.product_category = args[2]] ELSE k1

OverrideBudget(kw, args) ==
    IF Len(args) > 2 THEN [kw EXCEPT !.total_budget = Float(Chars(args[3]))] ELSE kw

ParseArgs ==
    /\ pc = "cli"
    /\ IF Len(argv) > 2 /\ ~FloatOk(Chars(argv[3]))
       THEN \* float() raises ValueError, nothing catches it
            /\ kwargs' = OverrideNames(kwargs, argv)
            /\ raised' = "ValueError"
            /\ stdout' = Append(stdout, "traceback")
            /\ exit_status' = 1
            /\ pc' = "crashed"
       ELSE /\ kwargs' = OverrideBudget(OverrideNames(kwargs, argv), argv)
            /\ pc' = "main"
            /\ UNCHANGED <<raised, stdout, exit_status>>
    /\ UNCHANGED <<argv, config_ok, Config, environ, agents, tasks, crew, status,
                   starts, contexts, task_outputs, kickoff_calls, result, files,
                   tool_log>>

\* ------------------------------------------------------------------ main()
\* Variant: a failed validation is reported but the run goes on.
ValidateConfigNoExit ==
    /\ pc = "main"
    /\ stdout' = IF ~config_ok
                 THEN stdout \o <<"banner", "validating", "config_failed">>
                 ELSE stdout \o <<"banner", "validating">>
    /\ pc' = "validated"
    /\ UNCHANGED <<argv, config_ok, Config, environ, kwargs, agents, tasks, crew,
                   status, starts, contexts, task_outputs, kickoff_calls, result,
                   files, exit_status, raised, tool_log>>

ValidateConfig ==
    /\ pc = "main"
    /\ IF ~config_ok
       THEN /\ stdout' = stdout \o <<"banner", "validating", "config_failed">>
            /\ exit_status' = 1
            /\ pc' = "exited"
       ELSE /\ stdout' = stdout \o <<"banner", "validating">>
            /\ pc' = "validated"
            /\ UNCHANGED exit_status
    /\ UNCHANGED <<argv, config_ok, Config, environ, kwargs, agents, tasks, crew,
                   status, starts, contexts, task_outputs, kickoff_calls, result,
                   files, raised, tool_log>>

\* Variant: the model name is written whatever USE_GROQ says.
SetEnvironAlwaysModel(env, cfg) ==
    [n \in EnvNames |->
        CASE n = "OPENAI_API_KEY"  -> cfg.API_KEY
          [] n = "OPENAI_API_BASE" -> cfg.API_BASE
          [] OTHER -> cfg.OPENAI_MODEL]

SetEnviron(env, cfg) ==
    [n \in EnvNames |->
        CASE n = "OPENAI_API_KEY"  -> cfg.API_KEY
          [] n = "OPENAI_API_BASE" -> cfg.API_BASE
          [] OTHER -> IF cfg.USE_GROQ THEN cfg.OPENAI_MODEL ELSE env[n]]

SetEnvironment ==
    /\ pc = "validated"
    /\ environ' = SetEnviron(environ, Config)
    /\ stdout' = stdout \o <<"config_ok", "config_summary">>
    /\ pc' = "configured"
    /\ UNCHANGED <<argv, config_ok, Config, kwargs, agents, tasks, crew, status,
                   starts, contexts, task_outputs, kickoff_calls, result, files,
                   exit_status, raised, tool_log>>

MakeAgents(kw) ==
    << create_market_research_agent(kw.product_name, kw.product_category),
       create_content_strategist_agent(kw.product_name, kw.target_audience),
       create_channel_specialist_agent(kw.product_category, kw.target_audience),
       create_campaign_planner_agent(kw.product_name, kw.target_audience),
       create_budget_analyst_agent(kw.product_category) >>

CreateAgents ==
    /\ pc = "configured"
    /\ agents' = MakeAgents(kwargs)
    /\ stdout' = Append(stdout, "agents_created")
    /\ pc' = "agents_created"
    /\ UNCHANGED <<argv, config_ok, Config, environ, kwargs, tasks, crew, status,
                   starts, contexts, task_outputs, kickoff_calls, result, files,
                   exit_status, raised, tool_log>>

\* Variant: the content strategy task is given the market research agent.
MakeTasksWrongAgent(ag, kw) ==
    << create_market_research_task(ag[1], kw.product_name, kw.product_category,
                                   kw.target_audience, kw.product_description),
       create_content_strategy_task(ag[1], kw.product_name, kw.product_description,
                                    kw.target_audience, kw.unique_value_proposition),
       create_channel_strategy_task(ag[3], kw.product_name, kw.product_category,
                                    kw.target_audience, kw.marketing_objectives),
       create_campaign_plan_task(ag[4], kw.product_name, kw.target_audience,
                                 kw.campaign_timeline, kw.marketing_objectives),
       create_budget_allocation_task(ag[5], kw.product_name, kw.total_budget,
                                     kw.marketing_objectives, kw.campaign_timeline) >>

MakeTasks(ag, kw) ==
    << create_market_research_task(ag[1], kw.product_name, kw.product_category,
                                   kw.target_audience, kw.product_description),
       create_content_strategy_task(ag[2], kw.product_name, kw.product_description,
                                    kw.target_audience, kw.unique_value_proposition),
       create_channel_strategy_task(ag[3], kw.product_name, kw.product_category,
                                    kw.target_audience, kw.marketing_objectives),
       create_campaign_plan_task(ag[4], kw.product_name, kw.target_audience,
                                 kw.campaign_timeline, kw.marketing_objectives),
       create_budget_allocation_task(ag[5], kw.product_name, kw.total_budget,
                                     kw.marketing_objectives, kw.campaign_timeline) >>

CreateTasks ==
    /\ pc = "agents_created"
    /\ tasks' = MakeTasks(agents, kwargs)
    /\ stdout' = Append(stdout, "tasks_created")
    /\ pc' = "tasks_created"
    /\ UNCHANGED <<argv, config_ok, Config, environ, kwargs, agents, crew, status,
                   starts, contexts, task_outputs, kickoff_calls, result, files,
                   exit_status, raised, tool_log>>

MakeCrew(ag, tk) ==
    [agents |-> <<ag[1], ag[2], ag[3], ag[4], ag[5]>>,
     tasks |-> <<tk[1], tk[2], tk[3], tk[4], tk[5]>>,
     verbose |-> TRUE,
     process |-> "sequential"]

FormCrew ==
    /\ pc = "tasks_created"
    /\ crew' = <<MakeCrew(agents, tasks)>>
    /\ stdout' = stdout \o <<"crew_formed", "starting">>
    /\ pc' = "crew_formed"
    /\ UNCHANGED <<argv, config_ok, Config, environ, kwargs, agents, tasks, status,
                   starts, contexts, task_outputs, kickoff_calls, result, files,
                   exit_status, raised, tool_log>>

\* ------------------------------------------- crew.kickoff(), sequential
\* The script builds the crew with process="sequential" and calls kickoff()
\* once.  The run itself is the crewai library's: it walks crew.tasks in list
\* order, runs each task with its own agent and that agent's tools, and
\* returns an output object whose text is that of the last task.
\* Texts the language model may return for a task.
Variants == {"draft A", "draft B"}

\* What the agent of a task hands back: the document the task asks for.
TaskOutput(task, v) == <<task.expected_output[1], v>>

\* Variant: tasks are run without the outputs of the tasks before them.
TaskContextEmpty(outs) == <<>>

\* Sequential process: a task without an explicit context is run with the
\* outputs of the tasks before it.
TaskContext(outs) == outs

\* Arguments the language model may pass to a tool.
ToolArgs(tool, kw) ==
    CASE tool = "research_market_trends" ->
             { <<kw.product_category, kw.target_audience>> }
      [] tool = "analyze_competitors" ->
             { <<kw.product_name, kw.product_category>> }
      [] tool = "research_marketing_channels" ->
             { <<kw.product_category, kw.target_audience>>,
               <<kw.product_category, "Students">> }
      [] OTHER ->
             { <<kw.total_budget, "social media, email">>,
               <<[num |-> 25, den |-> 10], "social media, email">> }

RunTool(tool, a) ==
    CASE tool = "research_market_trends"      -> research_market_trends(a[1], a[2])
      [] tool = "analyze_competitors"         -> analyze_competitors(a[1], a[2])
      [] tool = "research_marketing_channels" -> research_marketing_channels(a[1], a[2])
      [] OTHER                                -> calculate_marketing_metrics(a[1], a[2])

KickoffCall ==
    /\ pc = "crew_formed"
    /\ kickoff_calls' = kickoff_calls + 1
    /\ pc' = "kickoff"
    /\ UNCHANGED <<argv, config_ok, Config, environ, kwargs, agents, tasks, crew,
                   status, starts, contexts, task_outputs, result, files, stdout,
                   exit_status, raised, tool_log>>

\* The next task in crew.tasks: the one after those already finished.
NextStage == Len(task_outputs) + 1

\* Variant: any pending task may be picked next.
CanStartAny(i) == status[i] = "pending"

CanStart(i) == i = NextStage /\ status[i] = "pending"

StageStart(i) ==
    /\ pc = "kickoff"
    /\ i <= Len(crew[1].tasks)
    /\ CanStart(i)
    /\ status' = [status EXCEPT ![i] = "active"]
    /\ starts' = [starts EXCEPT ![i] = @ + 1]
    /\ contexts' = [contexts EXCEPT ![i] = TaskContext(task_outputs)]
    /\ UNCHANGED <<argv, config_ok, Config, environ, pc, kwargs, agents, tasks,
                   crew, task_outputs, kickoff_calls, result, files, stdout,
                   exit_status, raised, tool_log>>

\* Variant: a tool that numbers its answers.
ToolCallCounted(i, tool, a) ==
    /\ pc = "kickoff"
    /\ status[i] = "active"
    /\ Len(tool_log) < MaxToolCalls
    /\ \E k \in 1..Len(crew[1].tasks[i].agent.tools) :
           crew[1].tasks[i].agent.tools[k] = tool
    /\ a \in ToolArgs(tool, kwargs)
    /\ tool_log' = Append(tool_log,
                          [tool |-> tool, args |-> a,
                           result |-> RunTool(tool, a) \o <<ToString(Len(tool_log))>>])
    /\ UNCHANGED <<argv, config_ok, Config, environ, pc, kwargs, agents, tasks,
                   crew, status, starts, contexts, task_outputs, kickoff_calls,
                   result, files, stdout, exit_status, raised>>

\* The agent of the running task invokes one of its tools.
ToolCall(i, tool, a) ==
    /\ pc = "kickoff"
    /\ status[i] = "active"
    /\ Len(tool_log) < MaxToolCalls
    /\ \E k \in 1..Len(crew[1].tasks[i].agent.tools) :
           crew[1].tasks[i].agent.tools[k] = tool
    /\ a \in ToolArgs(tool, kwargs)
    /\ tool_log' = Append(tool_log, [tool |-> tool, args |-> a,
                                     result |-> RunTool(tool, a)])
    /\ UNCHANGED <<argv, config_ok, Config, environ, pc, kwargs, agents, tasks,
                   crew, status, starts, contexts, task_outputs, kickoff_calls,
                   result, files, stdout, exit_status, raised>>

StageFinish(i, v) ==
    /\ pc = "kickoff"
    /\ status[i] = "active"
    /\ status' = [status EXCEPT ![i] = "done"]
    /\ task_outputs' = Append(task_outputs, TaskOutput(crew[1].tasks[i], v))
    /\ UNCHANGED <<argv, config_ok, Config, environ, pc, kwargs, agents, tasks,
                   crew, starts, contexts, kickoff_calls, result, files, stdout,
                   exit_status, raised, tool_log>>

\* The running task fails (API error, rate limit, ...): kickoff() raises.
StageFail(i) ==
    /\ pc = "kickoff"
    /\ status[i] = "active"
    /\ status' = [status EXCEPT ![i] = "failed"]
    /\ raised' = "kickoff"
    /\ pc' = "except"
    /\ UNCHANGED <<argv, config_ok, Config, environ, kwargs, agents, tasks, crew,
                   starts, contexts, task_outputs, kickoff_calls, result, files,
                   stdout, exit_status, tool_log>>

\* The value kickoff() returns and what str() makes of it: the raw text of
\* the last task.
CrewOutput(outs) == [raw |-> outs[Len(outs)], tasks_output |-> outs]

Str(r) == r.raw

KickoffReturn ==
    /\ pc = "kickoff"
    /\ Len(task_outputs) = Len(crew[1].tasks)
    /\ result' = <<CrewOutput(task_outputs)>>
    /\ stdout' = Append(stdout, "completed")
    /\ pc' = "save"
    /\ UNCHANGED <<argv, config_ok, Config, environ, kwargs, agents, tasks, crew,
                   status, starts, contexts, task_outputs, kickoff_calls, files,
                   exit_status, raised, tool_log>>

\* ------------------------------------------------- saving, error handling
ReportBody(r) == <<Str(r)>>

ReportContent(kw, r) == ReportHeader(kw) \o ReportBody(r) \o <<Rule>>

\* open() may fail, and so may a write after the file was created; both
\* happen inside the try block.
SaveReport(outcome) ==
    /\ pc = "save"
    /\ CASE outcome = "ok" ->
              /\ files' = files \cup {[name |-> ReportName(kwargs.product_name),
                                       content |-> ReportContent(kwargs, result[1]),
                                       complete |-> TRUE]}
              /\ stdout' = stdout \o <<"saved", "strategy_includes">>
              /\ exit_status' = 0
              /\ pc' = "done"
              /\ UNCHANGED raised
         [] outcome = "open_error" ->
              /\ raised' = "open"
              /\ pc' = "except"
              /\ UNCHANGED <<files, stdout, exit_status>>
         [] OTHER ->
              /\ files' = files \cup {[name |-> ReportName(kwargs.product_name),
                                       content |-> ReportHeader(kwargs),
                                       complete |-> FALSE]}
              /\ raised' = "write"
              /\ pc' = "except"
              /\ UNCHANGED <<stdout, exit_status>>
    /\ UNCHANGED <<argv, config_ok, Config, environ, kwargs, agents, tasks, crew,
                   status, starts, contexts, task_outputs, kickoff_calls, result,
                   tool_log>>

\* Variant: the handler runs the crew again.
HandleExceptionRetry ==
    /\ pc = "except"
    /\ stdout' = stdout \o <<"error_during_crew_execution", "troubleshooting",
                             "traceback">>
    /\ pc' = "crew_formed"
    /\ UNCHANGED <<argv, config_ok, Config, environ, kwargs, agents, tasks, crew,
                   status, starts, contexts, task_outputs, kickoff_calls, result,
                   files, exit_status, raised, tool_log>>

\* Variant: the handler saves what it has.
HandleExceptionSavesPartial ==
    /\ pc = "except"
    /\ stdout' = stdout \o <<"error_during_crew_execution", "troubleshooting",
                             "traceback">>
    /\ files' = files \cup {[name |-> ReportName(kwargs.product_name),
                             content |-> ReportHeader(kwargs),
                             complete |-> FALSE]}
    /\ exit_status' = 0
    /\ pc' = "done"
    /\ UNCHANGED <<argv, config_ok, Config, environ, kwargs, agents, tasks, crew,
                   status, starts, contexts, task_outputs, kickoff_calls, result,
                   raised, tool_log>>

\* except Exception as e: print and fall off the end of main().
HandleException ==
    /\ pc = "except"
    /\ stdout' = stdout \o <<"error_during_crew_execution", "troubleshooting",
                             "traceback">>
    /\ exit_status' = 0
    /\ pc' = "done"
    /\ UNCHANGED <<argv, config_ok, Config, environ, kwargs, agents, tasks, crew,
                   status, starts, contexts, task_outputs, kickoff_calls, result,
                   files, raised, tool_log>>

Next ==
    \/ ParseArgs
    \/ ValidateConfig
    \/ SetEnvironment
    \/ CreateAgents
    \/ CreateTasks
    \/ FormCrew
    \/ KickoffCall
    \/ \E i \in Stages : StageStart(i)
    \/ \E i \in Stages, tool \in ToolNames :
           \E a \in ToolArgs(tool, kwargs) : ToolCall(i, tool, a)
    \/ \E i \in Stages, v \in Variants : StageFinish(i, v)
    \/ \E i \in Stages : StageFail(i)
    \/ KickoffReturn
    \/ \E outcome \in {"ok", "open_error", "write_error"} : SaveReport(outcome)
    \/ HandleException

Spec == Init /\ [][Next]_vars

\* ================================================================= claims
Printed(m) == \E k \in 1..Len(stdout) : stdout[k] = m

\* The documents of the five stages, in the order the claims name them.
StageDocument ==
    <<"A comprehensive market research report",
      "A comprehensive content strategy document",
      "A comprehensive channel strategy document",
      "A detailed marketing campaign plan",
      "A comprehensive budget allocation plan">>

StageRole ==
    <<"Market Research Analyst", "Content Strategist",
      "Marketing Channel Specialist", "Campaign Planner",
      "Marketing Budget Analyst">>

\* C1: once crew execution is reached the five stages run in the order market
\* research, content strategy, channel strategy, campaign plan, budget
\* allocation: a stage has started only if every earlier stage is finished,
\* no stage is started twice, at most one stage is active, the k-th output
\* is the document of the k-th stage, and kickoff returns only when all five
\* are done.
C1_FixedStageOrder ==
    /\ \A i \in Stages : status[i] # "pending" =>
           /\ \A j \in 1..(i - 1) : status[j] = "done"
           /\ crew[1].tasks[i].agent.role = StageRole[i]
           /\ crew[1].tasks[i].expected_output[1] = StageDocument[i]
    /\ \A i \in Stages : starts[i] <= 1
    /\ Cardinality({ i \in Stages : status[i] = "active" }) <= 1
    /\ Len(task_outputs) = Cardinality({ i \in Stages : status[i] = "done" })
    /\ \A k \in 1..Len(task_outputs) : task_outputs[k][1] = StageDocument[k]
    /\ result # <<>> => \A i \in Stages : status[i] = "done" /\ starts[i] = 1

C1_Witness ==
    /\ pc = "done"
    /\ result # <<>>
    /\ \A i \in Stages : status[i] = "done"

\* C2: every stage after the first works from an input that includes the
\* output of the stage before it.
C2_HandOff ==
    \A i \in 2..NumStages : status[i] # "pending" =>
        /\ Len(task_outputs) >= i - 1
        /\ \E k \in 1..Len(contexts[i]) : contexts[i][k] = task_outputs[i - 1]

C2_Witness ==
    /\ status[NumStages] = "done"
    /\ \E k \in 1..Len(contexts[NumStages]) :
           contexts[NumStages][k] = task_outputs[NumStages - 1]

\* C3: a completely written report holds, right after its header, the
\* outputs of all five stages in stage order.
C3_ReportHasAllStages ==
    \A f \in files : f.complete =>
        /\ Len(f.content) >= Len(ReportHeader(kwargs)) + NumStages
        /\ \A i \in Stages :
               f.content[Len(ReportHeader(kwargs)) + i] = task_outputs[i]

\* C4: kickoff is invoked at most once; a failure of kickoff is caught, never
\* retried, reported with the error message, and main returns normally.
C4_CatchAndPrint ==
    /\ kickoff_calls <= 1
    /\ raised = "kickoff" =>
           /\ pc \in {"except", "done"}
           /\ kickoff_calls = 1
           /\ result = <<>>
           /\ pc = "done" => /\ Printed("error_during_crew_execution")
                             /\ exit_status = 0

C4_Witness ==
    /\ raised = "kickoff"
    /\ pc = "done"
    /\ Printed("error_during_crew_execution")

\* C5: a tool invocation changes nothing but the record of the invocation
\* itself, and any two invocations of one tool with the same arguments
\* return the same text, whatever was called in between.
C5_ToolsArePure ==
    [][tool_log' # tool_log =>
          /\ UNCHANGED <<argv, config_ok, Config, environ, pc, kwargs, agents,
                         tasks, crew, status, starts, contexts, task_outputs,
                         kickoff_calls, result, files, stdout, exit_status,
                         raised>>
          /\ \A i, j \in 1..Len(tool_log') :
                 (tool_log'[i].tool = tool_log'[j].tool
                    /\ tool_log'[i].args = tool_log'[j].args)
                 => tool_log'[i].result = tool_log'[j].result]_vars

C5_Witness ==
    /\ Len(tool_log) >= 2
    /\ tool_log[1].tool = tool_log[2].tool
    /\ tool_log[1].args = tool_log[2].args

\* C6: when validate_config() returns false the run ends with exit status 1
\* at the validation step: no environment variable is written, no agent,
\* task or crew exists, kickoff is never invoked and no file is written.
C6_InvalidConfigExits ==
    /\ [](~config_ok =>
            /\ pc \in {"cli", "main", "crashed", "exited"}
            /\ pc = "exited" => exit_status = 1
            /\ agents = <<>> /\ tasks = <<>> /\ crew = <<>>
            /\ kickoff_calls = 0
            /\ files = {})
    /\ [][~config_ok => environ' = environ]_vars

C6_Witness ==
    /\ ~config_ok
    /\ pc = "exited"
    /\ exit_status = 1
    /\ Printed("config_failed")

\* The number each budget argument denotes, as a fraction.
ArgNumber(s) ==
    CASE s = "2.5" -> [num |-> 5, den |-> 2]
      [] OTHER     -> [num |-> 1500, den |-> 1]

SameNumber(x, y) == x.num * y.den = y.num * x.den

\* C7: once main is called with n positional arguments, product_name is the
\* first argument if n >= 1, product_category the second if n >= 2,
\* total_budget the number the third denotes if n >= 3; every other
\* parameter has its default and arguments after the third change nothing.
C7_CommandLine ==
    pc \notin {"cli", "crashed"} =>
        /\ kwargs.product_name =
               IF Len(argv) >= 1 THEN argv[1] ELSE MainDefaults.product_name
        /\ kwargs.product_category =
               IF Len(argv) >= 2 THEN argv[2] ELSE MainDefaults.product_category
        /\ SameNumber(kwargs.total_budget,
                      IF Len(argv) >= 3 THEN ArgNumber(argv[3])
                      ELSE MainDefaults.total_budget)
        /\ kwargs.product_description = MainDefaults.product_description
        /\ kwargs.target_audience = MainDefaults.target_audience
        /\ kwargs.unique_value_proposition = MainDefaults.unique_value_proposition
        /\ kwargs.marketing_objectives = MainDefaults.marketing_objectives
        /\ kwargs.campaign_timeline = MainDefaults.campaign_timeline
        /\ DOMAIN kwargs = DOMAIN MainDefaults

C7_Witness ==
    /\ pc = "main"
    /\ Len(argv) = 4
    /\ kwargs.product_name = argv[1]
    /\ kwargs.total_budget # MainDefaults.total_budget

\* C8: a report file is created or modified only after kickoff has returned
\* a result; a run in which kickoff raised, or was never reached, has no
\* report file.
C8_ReportWrittenLast ==
    /\ [](files # {} => /\ result # <<>>
                        /\ kickoff_calls = 1
                        /\ raised # "kickoff"
                        /\ Printed("completed"))
    /\ [][files' # files => result # <<>> /\ pc = "save"]_vars

C8_Witness ==
    /\ pc = "done"
    /\ \E f \in files : f.complete

\* C9: the crew has exactly five agents and five tasks, the i-th task belongs
\* to the i-th agent, every agent owns exactly one task, and every agent has
\* allow_delegation = False.
C9_AgentTaskPairs ==
    crew # <<>> =>
        /\ Len(crew[1].agents) = 5
        /\ Len(crew[1].tasks) = 5
        /\ \A i \in 1..5 :
               /\ crew[1].tasks[i].agent = crew[1].agents[i]
               /\ crew[1].agents[i].role = StageRole[i]
               /\ crew[1].agents[i].allow_delegation = FALSE
               /\ Cardinality({ j \in 1..5 :
                                  crew[1].tasks[j].agent = crew[1].agents[i] }) = 1

C9_Witness ==
    /\ crew # <<>>
    /\ pc = "crew_formed"

\* C10: the success banner and the error message are never both printed, and
\* the error message is printed only when kickoff itself failed.
C10_ExclusiveOutcome ==
    /\ ~(Printed("completed") /\ Printed("error_during_crew_execution"))
    /\ Printed("error_during_crew_execution") => raised = "kickoff"

\* C11: after a successful validation OPENAI_API_KEY and OPENAI_API_BASE hold
\* the Config values from before the first agent exists; the environment is
\* written only at that step; OPENAI_MODEL_NAME holds Config.OPENAI_MODEL
\* when USE_GROQ is true and never changes when USE_GROQ is false.
C11_EnvironmentSetUp ==
    /\ [](pc \notin {"cli", "main", "validated", "exited", "crashed"} =>
            /\ environ["OPENAI_API_KEY"] = Config.API_KEY
            /\ environ["OPENAI_API_BASE"] = Config.API_BASE
            /\ Config.USE_GROQ => environ["OPENAI_MODEL_NAME"] = Config.OPENAI_MODEL)
    /\ [](agents # <<>> =>
            /\ environ["OPENAI_API_KEY"] = Config.API_KEY
            /\ environ["OPENAI_API_BASE"] = Config.API_BASE)
    /\ [][environ' # environ => pc = "validated" /\ config_ok /\ agents = <<>>]_vars
    /\ [][~Config.USE_GROQ =>
             environ'["OPENAI_MODEL_NAME"] = environ["OPENAI_MODEL_NAME"]]_vars

C11_Witness ==
    /\ pc = "agents_created"
    /\ ~Config.USE_GROQ
    /\ environ["OPENAI_MODEL_NAME"] = "preset"
    /\ environ["OPENAI_API_KEY"] = Config.API_KEY

\* Third arguments that do not denote a number.
NotANumber == {".", "", "A/B"}

\* C12: when the third argument is not a number the run ends in the
\* conversion with an uncaught ValueError: main is never entered, its handler
\* prints nothing, nothing is validated, no environment variable is written,
\* no agent, task or crew exists, kickoff is not invoked, no file is written.
C12_BadBudgetFailsEarly ==
    /\ []((Len(argv) >= 3 /\ argv[3] \in NotANumber) =>
            /\ pc \in {"cli", "crashed"}
            /\ pc = "crashed" => raised = "ValueError" /\ exit_status = 1
            /\ ~Printed("banner")
            /\ ~Printed("validating")
            /\ ~Printed("error_during_crew_execution")
            /\ agents = <<>> /\ tasks = <<>> /\ crew = <<>>
            /\ kickoff_calls = 0
            /\ result = <<>>
            /\ files = {})
    /\ []((raised = "ValueError") => (Len(argv) >= 3 /\ argv[3] \in NotANumber))
    /\ [][(Len(argv) >= 3 /\ argv[3] \in NotANumber) => environ' = environ]_vars

C12_Witness ==
    /\ pc = "crashed"
    /\ raised = "ValueError"
    /\ Len(argv) >= 3
    /\ argv[3] = "A/B"
    /\ files = {}

====
